---- MODULE Spec2Model ----
(***************************************************************************)
(* post-room: a worker that pops mail tasks from a Redis list and sends    *)
(* each one through an SMTP relay in its own goroutine, draining the       *)
(* in-flight deliveries on os.Interrupt.                                   *)
(*                                                                         *)
(* The repository holds three revisions of the worker's main package:      *)
(*   src/main.go           (prog = "main")                                 *)
(*   src/unnamed/part_000  (prog = "part_000")                             *)
(*   src/unnamed/part_001  (prog = "part_001")                             *)
(* The model runs any one of them; prog is fixed in the initial state.     *)
(*                                                                         *)
(* sync.WaitGroup is modelled by its documented contract: a counter, Add   *)
(* and Done change it atomically, Wait returns once it is zero.  The Redis *)
(* list and the SMTP relay are the environment: producers push payloads,   *)
(* BRPop may fail, and the relay may reject a session at any stage.        *)
(***************************************************************************)
EXTENDS Integers, Sequences, FiniteSets, TLC

\* ------------------------------------------------------------------ bounds
MaxPushes == 2

\* ------------------------------------------------------------- vocabulary
Progs == {"main", "part_000", "part_001"}

\* os.LookupEnv of one variable: not set ("absent"), set to "" ("empty"), set
\* to a value ("set").  REDIS_KEY is not set or names a list.  The required
\* variables are taken as set or not set.
EnvRecord(u, pw, h, po, sa, ra, rk) ==
  [username |-> u, password |-> pw, host |-> h, port |-> po, sender |-> sa,
   redisAddress |-> ra, redisKey |-> rk]

\* The environments the worker is started in when its run is followed: the
\* required variables set, REDIS_KEY not set, and both credentials given,
\* neither given, or a username with an empty password.
Environments ==
  { EnvRecord("set",    "set",    "set", "set", "set", "set", "absent"),
    EnvRecord("absent", "absent", "set", "set", "set", "set", "absent"),
    EnvRecord("set",    "empty",  "set", "set", "set", "set", "absent") }

\* Every environment, for the start-up and the mailer on their own.
AllEnvironments ==
  { EnvRecord(u, pw, h, po, sa, ra, rk) :
      u \in {"absent", "empty", "set"}, pw \in {"absent", "empty", "set"},
      h \in {"absent", "set"}, po \in {"absent", "set"},
      sa \in {"absent", "set"}, ra \in {"absent", "set"},
      rk \in {"absent", "tasks", "mail"} }

\* res before any pop and after a failed one: the nil slice.
NoResult == [kind |-> "none", hasRcpt |-> FALSE, recipients |-> <<>>]

\* What a producer may leave on the list.  "garbage" is not JSON at all; an
\* "object" is a JSON object whose recipients member is missing (hasRcpt =
\* FALSE) or is an array of address strings.  An object with "recipients": []
\* decodes to the same task as one without the member and is left out.
Payloads ==
  { [kind |-> "garbage", hasRcpt |-> FALSE, recipients |-> <<>>],
    [kind |-> "object", hasRcpt |-> FALSE, recipients |-> <<>>],
    [kind |-> "object", hasRcpt |-> TRUE,  recipients |-> <<"a@x.com">>],
    [kind |-> "object", hasRcpt |-> TRUE,  recipients |-> <<"a@x.com", "b@x.com">>] }

\* wire before any call of sendMail has been followed.
NoWire == [called |-> FALSE]

\* The stage at which the relay refuses a session ("none": it accepts it all).
RelayStages == {"none", "dial", "auth", "mail", "rcpt", "data", "write", "close"}

VARIABLES
  prog,        \* which revision of the worker runs
  env,         \* the environment: SMTP_USERNAME, SMTP_PASSWORD
  proc,        \* "running", or how the process ended
  mainpc,      \* position of func main
  looppc,      \* position of the dispatch goroutine
  auth,        \* mailer.auth / mailAuth: "nil" or "plain"
  queue,       \* the Redis list "tasks", head first
  res,         \* BRPop's result: the popped payload, or NoResult
  err,         \* BRPop's error
  counter,     \* wg: the WaitGroup counter
  deliveries,  \* the delivery goroutines, in dispatch order
  sigchan,     \* number of signals buffered in sigchan (capacity 1)
  drainNotice, \* "waiting for in-progress tasks to finish..." was logged
  pushes,      \* payloads pushed so far
  options,     \* AppOptions, as validateEnvironment returned it
  wire,        \* what one call of sendMail put on the wire (NoWire: none)
  hist         \* history: what the run did, for stating the properties

vars == <<prog, env, proc, mainpc, looppc, auth, queue, res, err, counter,
          deliveries, sigchan, drainNotice, pushes, options, wire, hist>>

\* ------------------------------------------------------- pure operations

\* validateEnvironment returns an error.  SMTP_HOST, SMTP_PORT,
\* SENDER_ADDRESS and REDIS_ADDRESS must be set in every revision.
\* src/main.go and part_000 also require the two credentials to be set (to
\* any value, "" included); part_001 ignores LookupEnv's ok for them.
validateEnvironmentFails(p, e) ==
  \/ p # "part_001" /\ (e.username = "absent" \/ e.password = "absent")
  \/ e.host = "absent"
  \/ e.port = "absent"
  \/ e.sender = "absent"
  \/ e.redisAddress = "absent"

\* The string os.LookupEnv returns: "" for a variable that is not set.
LookupEnv(v) == IF v \in {"absent", "empty"} THEN "" ELSE v

\* AppOptions{}: every field the empty string.
ZeroOptions ==
  [SMTPUsername |-> "", SMTPPassword |-> "", SMTPHost |-> "", SMTPPort |-> "",
   SenderAddress |-> "", RedisAddress |-> "", RedisKey |-> ""]

\* The AppOptions validateEnvironment returns with a nil error.  RedisKey
\* is REDIS_KEY, or "tasks" when that is not set.
validateEnvironment(e) ==
  [SMTPUsername |-> LookupEnv(e.username), SMTPPassword |-> LookupEnv(e.password),
   SMTPHost |-> LookupEnv(e.host), SMTPPort |-> LookupEnv(e.port),
   SenderAddress |-> LookupEnv(e.sender), RedisAddress |-> LookupEnv(e.redisAddress),
   RedisKey |-> IF e.redisKey = "absent" THEN "tasks" ELSE e.redisKey]

\* The list the dispatch loop pops: the literal in rdb.BRPop(ctx, 0, "tasks").
BRPopKey == "tasks"

\* The smtp.Auth the deliveries use.  part_001 leaves mailer.auth nil unless
\* both credentials are non-empty; the other two always call smtp.PlainAuth.
mailerAuth(p, e) ==
  IF p = "part_001"
    THEN IF e.username = "set" /\ e.password = "set" THEN "plain" ELSE "nil"
    ELSE "plain"

\* json.Unmarshal([]byte(taskBody), &task): TRUE when it returns an error.
\* A JSON object without a recipients member decodes; Recipients stays nil.
UnmarshalFails(payload) == payload.kind # "object"

\* The Mail / Task value json.Unmarshal leaves in task.
\* Text is a sequence of pieces: a piece is one character of user text, or a
\* run of characters without '%' (an address, a literal of the template).
Unmarshal(payload) ==
  [subject |-> <<"H", "i">>, message |-> <<"<p>hello</p>">>,
   recipients |-> payload.recipients]

\* Which of the two sessions sendMail runs.
transport(p, a) ==
  IF p = "part_001" /\ a = "nil" THEN "unauthenticated" ELSE "plain-auth"

\* smtpSendMail with the error escalated instead of returned (as by a
\* log.Fatal in place of the log.Print): what C9 must notice.
smtpSendMailFatal(to, relay) ==
  IF relay = "none" \/ (relay = "rcpt" /\ Len(to) = 0) THEN "sent" ELSE "panic"

\* net/smtp.SendMail(addr, auth, from, to, msg) against a relay that refuses
\* the session at stage `relay`: Dial, AUTH, MAIL, one RCPT per entry of
\* `to`, DATA, the body, the closing dot.  With an empty `to` no RCPT is
\* issued, so a refusal at that stage never comes.
smtpSendMail(to, relay) ==
  IF relay = "none" \/ (relay = "rcpt" /\ Len(to) = 0) THEN "sent" ELSE "failed"

\* Mailer.sendMailUnauthenticated: Dial, c.Mail, c.Rcpt(mail.Recipients[0]),
\* c.Data, Fprintf, wc.Close.  Indexing an empty Recipients panics.
sendMailUnauthenticated(mail, relay) ==
  CASE relay \in {"dial", "mail"} -> "failed"
    [] Len(mail.recipients) = 0 -> "panic"
    [] relay \in {"rcpt", "data", "write", "close"} -> "failed"
    [] OTHER -> "sent"

\* What one run of sendMail does with `mail`: "sent", "failed" (the error is
\* logged and swallowed) or "panic".
sendMail(p, a, mail, relay) ==
  IF transport(p, a) = "unauthenticated"
    THEN sendMailUnauthenticated(mail, relay)
    ELSE smtpSendMail(mail.recipients, relay)

\* ------------------------------------------------------------ the mailer

\* The tasks sendMail is called with when the mailer is followed on its own.
Subjects == { <<"H", "i">>, <<"5", "0", "%">>, <<>> }
Messages == { <<"<p>hello</p>">>, <<"1", "0", "%", "d">>, <<"%", "%">>, <<"o", "k", "%">> }
RecipientLists ==
  { <<>>, <<"a@x.com">>, <<"a@x.com", "b@x.com">>, <<"a@x.com", "b@x.com", "c@x.com">> }
Mails == [subject : Subjects, message : Messages, recipients : RecipientLists]

\* The message template: literals and four %s verbs.
ContentTypeLine == "Content-Type: text/html; charset=\"UTF-8\";"
messageTemplate ==
  << ContentTypeLine, "<CR>", "<LF>",
     "To: ", "%s", "<CR>", "<LF>",
     "From: ", "%s", "<CR>", "<LF>",
     "Subject: ", "%s", "<CR>", "<LF>", "<CR>", "<LF>", "%s" >>

\* strings.Join(elems, sep)
RECURSIVE stringsJoin(_, _)
stringsJoin(elems, sep) ==
  IF Len(elems) = 0 THEN <<>>
  ELSE IF Len(elems) = 1 THEN <<elems[1]>>
  ELSE <<elems[1], sep>> \o stringsJoin(Tail(elems), sep)

\* fmt.Sprintf(format, args...): each %s of the format is replaced by the
\* next argument, whose own text is copied and not scanned; a %s without an
\* argument left prints %!s(MISSING).
RECURSIVE Sprintf(_, _)
Sprintf(format, args) ==
  IF Len(format) = 0 THEN <<>>
  ELSE IF format[1] = "%s"
    THEN IF Len(args) = 0
           THEN <<"%!", "s", "(MISSING)">> \o Sprintf(Tail(format), args)
           ELSE args[1] \o Sprintf(Tail(format), Tail(args))
    ELSE <<format[1]>> \o Sprintf(Tail(format), args)

\* fmt.Fprintf(w, format) with no arguments, as sendMailUnauthenticated calls
\* it on the rendered message: %% prints %, a % at the end prints
\* %!(NOVERB), and % before any other character c prints %!c(MISSING).
RECURSIVE Fprintf(_)
Fprintf(format) ==
  IF Len(format) = 0 THEN <<>>
  ELSE IF format[1] # "%" THEN <<format[1]>> \o Fprintf(Tail(format))
  ELSE IF Len(format) = 1 THEN <<"%!", "(NOVERB)">>
  ELSE IF format[2] = "%" THEN <<"%">> \o Fprintf(Tail(Tail(format)))
  ELSE <<"%!", format[2], "(MISSING)">> \o Fprintf(Tail(Tail(format)))

\* renderMessage with the first two arguments of Sprintf in the wrong order:
\* what C16 must notice.
renderMessageSwapped(mail, senderAddress) ==
  Sprintf(messageTemplate,
          << <<senderAddress>>, stringsJoin(mail.recipients, ", "),
             mail.subject, mail.message >>)

\* The first line of sendMail: the rendered message.
renderMessage(mail, senderAddress) ==
  Sprintf(messageTemplate,
          << stringsJoin(mail.recipients, ", "), <<senderAddress>>,
             mail.subject, mail.message >>)

\* The order of the stages of a session; the relay's refusal at stage s ends
\* the session there, so stage t is reached when t comes no later than s.
StageOrd(s) ==
  CASE s = "dial" -> 1 [] s = "auth" -> 2 [] s = "mail" -> 3 [] s = "rcpt" -> 4
    [] s = "data" -> 5 [] s = "write" -> 6 [] s = "close" -> 7 [] OTHER -> 8

\* An unauthenticated session has no AUTH for the relay to refuse.
effectiveRelay(tr, relay) ==
  IF tr = "unauthenticated" /\ relay = "auth" THEN "none" ELSE relay

\* rcptCommands with the unauthenticated session addressing every recipient,
\* as smtp.SendMail does: what C12 must notice.
rcptCommandsAll(tr, recipients, relay) ==
  IF StageOrd(effectiveRelay(tr, relay)) < StageOrd("rcpt") \/ Len(recipients) = 0
    THEN <<>>
  ELSE IF relay = "rcpt"
    THEN <<recipients[1]>>
  ELSE recipients

\* The RCPT TO commands a session issues that is not refused before them:
\* sendMailUnauthenticated issues one, for mail.Recipients[0]; smtp.SendMail
\* one per recipient, stopping at a refused one (here the first).
rcptCommands(tr, recipients, relay) ==
  IF StageOrd(effectiveRelay(tr, relay)) < StageOrd("rcpt") \/ Len(recipients) = 0
    THEN <<>>
  ELSE IF tr = "unauthenticated" \/ relay = "rcpt"
    THEN <<recipients[1]>>
  ELSE recipients

\* The bytes handed to the DATA writer by a session that gets that far:
\* smtp.SendMail writes msg; sendMailUnauthenticated passes the message to
\* Fprintf as its format.
dataBytes(tr, message) ==
  IF tr = "unauthenticated" THEN Fprintf(message) ELSE message

\* mail is passed to sendMail by value: what the caller holds afterwards,
\* whatever sendMail assigned to its own copy.
callerTaskAfter(mail, rendered) == mail

\* One whole call of sendMail(mail) against a relay refusing at `relay`.
Session(p, a, opts, mail, relay) ==
  LET tr == transport(p, a)
      message == renderMessage(mail, opts.SenderAddress)
      out == sendMail(p, a, mail, relay)
      wrote == out # "panic" /\ StageOrd(effectiveRelay(tr, relay)) >= StageOrd("write")
  IN [called |-> TRUE, arg |-> mail, task |-> callerTaskAfter(mail, message),
      relay |-> relay, transport |-> tr, outcome |-> out, message |-> message,
      rcpt |-> rcptCommands(tr, mail.recipients, relay),
      wrote |-> wrote,
      data |-> IF wrote THEN dataBytes(tr, message) ELSE <<>>]

\* wg.Add(1) and wg.Done().
wgAdd(c) == c + 1
wgDone(c) == c - 1

\* A Wait that lets go while one delivery is still counted: what C4 must
\* notice.
wgWaitReturnsEarly(c) == c <= 1

\* wg.Wait() returns.
wgWaitReturns(c) == c = 0

\* src/main.go calls wg.Add(1) as soon as BRPop returns, before it looks at
\* the result; the two later revisions call it after a successful decode.
addsBeforeDecode(p) == p = "main"

\* ----------------------------------------------------------------- state

Running == proc = "running"

InFlight == {d \in DOMAIN deliveries : deliveries[d].st = "inflight"}

Init ==
  /\ prog \in Progs
  /\ env \in Environments
  /\ proc = "running"
  /\ mainpc = "init"
  /\ looppc = "idle"
  /\ auth = "nil"
  /\ queue = <<>>
  /\ res = NoResult
  /\ err = FALSE
  /\ counter = 0
  /\ deliveries = <<>>
  /\ sigchan = 0
  /\ drainNotice = FALSE
  /\ pushes = 0
  /\ options = ZeroOptions
  /\ wire = NoWire
  /\ hist = [adds |-> 0, dones |-> 0, popped |-> <<>>, received |-> FALSE,
             atInterrupt |-> {}]

\* ----------------------------------------------------------- environment

\* A producer pushes a payload on the left of the list (LPUSH).  Pushes to the
\* list of a worker that has ended are not followed.
Push ==
  /\ Running
  /\ pushes < MaxPushes
  /\ \E p \in Payloads : queue' = <<p>> \o queue
  /\ pushes' = pushes + 1
  /\ UNCHANGED <<options, wire, prog, env, proc, mainpc, looppc, auth, res, err, counter,
                 deliveries, sigchan, drainNotice, hist>>

\* SIGINT reaches the process once signal.Notify is in place, any number of
\* times: the signal is sent to sigchan without blocking, and dropped when
\* its one-slot buffer is full.
Interrupt ==
  /\ Running
  /\ mainpc # "init"
  /\ sigchan' = 1
  /\ UNCHANGED <<options, wire, prog, env, proc, mainpc, looppc, auth, queue, res, err,
                 counter, deliveries, drainNotice, pushes, hist>>

\* ------------------------------------------------------------- func main

\* main up to the blocking receive on sigchan: validateEnvironment (its error
\* ends the process), the mailer and its auth, the dispatch goroutine,
\* signal.Notify.
MainStart ==
  /\ Running
  /\ mainpc = "init"
  /\ IF validateEnvironmentFails(prog, env)
       THEN /\ proc' = "exit:config"
            /\ mainpc' = "returned"
            /\ UNCHANGED <<looppc, auth, options>>
       ELSE /\ options' = validateEnvironment(env)
            /\ auth' = mailerAuth(prog, env)
            /\ looppc' = "pop"
            /\ mainpc' = "listening"
            /\ UNCHANGED proc
  /\ UNCHANGED <<wire, prog, env, queue, res, err, counter, deliveries, sigchan,
                 drainNotice, pushes, hist>>

\* <-sigchan, then the drain notice.
MainReceive ==
  /\ Running
  /\ mainpc = "listening"
  /\ sigchan > 0
  /\ sigchan' = sigchan - 1
  /\ drainNotice' = TRUE
  /\ mainpc' = "waiting"
  /\ hist' = [hist EXCEPT !.received = TRUE, !.atInterrupt = InFlight]
  /\ UNCHANGED <<options, wire, prog, env, proc, looppc, auth, queue, res, err, counter,
                 deliveries, pushes>>

\* wg.Wait() returns.
MainWait ==
  /\ Running
  /\ mainpc = "waiting"
  /\ wgWaitReturns(counter)
  /\ mainpc' = "finishing"
  /\ UNCHANGED <<options, wire, prog, env, proc, looppc, auth, queue, res, err, counter,
                 deliveries, sigchan, drainNotice, pushes, hist>>

\* The closing log lines, then main returns and the process ends with it.
MainExit ==
  /\ Running
  /\ mainpc = "finishing"
  /\ mainpc' = "returned"
  /\ proc' = "exit:drain"
  /\ UNCHANGED <<options, wire, prog, env, looppc, auth, queue, res, err, counter,
                 deliveries, sigchan, drainNotice, pushes, options, wire, hist>>

\* ------------------------------------------------------ the dispatch loop

\* LoopBRPop behind a one-slot worker pool: the next pop waits until no
\* delivery is in flight.  What C18 must notice.
LoopBRPopSerial ==
  /\ Running
  /\ looppc = "pop"
  /\ queue # <<>>
  /\ counter = 0
  /\ res' = queue[Len(queue)]
  /\ queue' = SubSeq(queue, 1, Len(queue) - 1)
  /\ err' = FALSE
  /\ looppc' = "got"
  /\ hist' = [hist EXCEPT !.popped = Append(@, queue[Len(queue)])]
  /\ UNCHANGED <<options, wire, prog, env, proc, mainpc, auth, counter,
                 deliveries, sigchan, drainNotice, pushes>>

\* rdb.BRPop(ctx, 0, "tasks").Result() returns the entry at the right end of
\* the list; it blocks while the list is empty.
LoopBRPop ==
  /\ Running
  /\ looppc = "pop"
  /\ queue # <<>>
  /\ res' = queue[Len(queue)]
  /\ queue' = SubSeq(queue, 1, Len(queue) - 1)
  /\ err' = FALSE
  /\ looppc' = "got"
  /\ hist' = [hist EXCEPT !.popped = Append(@, queue[Len(queue)])]
  /\ UNCHANGED <<options, wire, prog, env, proc, mainpc, auth, counter, deliveries, sigchan,
                 drainNotice, pushes>>

\* BRPop returns an error (the connection to Redis failed) and a nil result.
LoopBRPopError ==
  /\ Running
  /\ looppc = "pop"
  /\ res' = NoResult
  /\ err' = TRUE
  /\ looppc' = "got"
  /\ UNCHANGED <<options, wire, prog, env, proc, mainpc, auth, queue, counter, deliveries,
                 sigchan, drainNotice, pushes, hist>>

\* The rest of the iteration when BRPop failed.  part_000 and part_001 call
\* log.Fatalln, which exits the process.  src/main.go prints the error and
\* goes on: wg.Add(1), then res[1] on the nil slice panics.
LoopPopFailed ==
  /\ Running
  /\ looppc = "got"
  /\ err
  /\ IF addsBeforeDecode(prog)
       THEN /\ counter' = wgAdd(counter)
            /\ hist' = [hist EXCEPT !.adds = @ + 1]
            /\ proc' = "exit:panic"
       ELSE /\ proc' = "exit:fatal"
            /\ UNCHANGED <<counter, hist>>
  /\ looppc' = "stopped"
  /\ UNCHANGED <<options, wire, prog, env, mainpc, auth, queue, res, err, deliveries,
                 sigchan, drainNotice, pushes>>

\* The rest of the iteration when json.Unmarshal fails.  part_000 and
\* part_001 log and `continue`.  src/main.go has already called wg.Add(1)
\* and `return`s from the goroutine: the loop ends.
LoopDecodeFailed ==
  /\ Running
  /\ looppc = "got"
  /\ ~err
  /\ UnmarshalFails(res)
  /\ IF addsBeforeDecode(prog)
       THEN /\ counter' = wgAdd(counter)
            /\ hist' = [hist EXCEPT !.adds = @ + 1]
            /\ looppc' = "stopped"
       ELSE /\ looppc' = "pop"
            /\ UNCHANGED <<counter, hist>>
  /\ UNCHANGED <<options, wire, prog, env, proc, mainpc, auth, queue, res, err, deliveries,
                 sigchan, drainNotice, pushes>>

\* LoopDispatch that counts the task and goes back to the pop without
\* starting its delivery: what C17 must notice.
LoopDispatchLate ==
  /\ Running
  /\ looppc = "got"
  /\ ~err
  /\ ~UnmarshalFails(res)
  /\ counter' = wgAdd(counter)
  /\ hist' = [hist EXCEPT !.adds = @ + 1]
  /\ looppc' = "pop"
  /\ UNCHANGED <<options, wire, prog, env, proc, mainpc, auth, queue, res,
                 err, deliveries, sigchan, drainNotice, pushes>>

\* The rest of the iteration when the payload decodes: wg.Add(1) and the
\* delivery goroutine is started with the decoded task.
LoopDispatch ==
  /\ Running
  /\ looppc = "got"
  /\ ~err
  /\ ~UnmarshalFails(res)
  /\ counter' = wgAdd(counter)
  /\ deliveries' = Append(deliveries, [mail |-> Unmarshal(res), st |-> "inflight"])
  /\ hist' = [hist EXCEPT !.adds = @ + 1]
  /\ looppc' = "pop"
  /\ UNCHANGED <<options, wire, prog, env, proc, mainpc, auth, queue, res, err, sigchan,
                 drainNotice, pushes>>

\* ------------------------------------------------------------ deliveries

\* Deliver with a retry: a failed delivery puts its task back on the list.
\* What C10 must notice.
DeliverRequeue(d, relay) ==
  /\ Running
  /\ d \in InFlight
  /\ LET out == sendMail(prog, auth, deliveries[d].mail, relay) IN
       /\ out # "panic"
       /\ deliveries' = [deliveries EXCEPT ![d].st = out]
       /\ counter' = wgDone(counter)
       /\ hist' = [hist EXCEPT !.dones = @ + 1]
       /\ queue' = IF out = "failed"
                     THEN <<[kind |-> "object", hasRcpt |-> TRUE,
                             recipients |-> deliveries[d].mail.recipients]>> \o queue
                     ELSE queue
  /\ UNCHANGED <<options, wire, prog, env, proc, mainpc, looppc, auth, res, err, sigchan,
                 drainNotice, pushes>>

\* Delivery goroutine d runs sendMail to its end against a relay that
\* refuses at stage `relay`, then wg.Done() (deferred in src/main.go, after
\* the call in the later revisions).  A panic in sendMail ends the process.
Deliver(d, relay) ==
  /\ Running
  /\ d \in InFlight
  /\ LET out == sendMail(prog, auth, deliveries[d].mail, relay) IN
       IF out = "panic"
         THEN /\ deliveries' = [deliveries EXCEPT ![d].st = "panic"]
              /\ proc' = "exit:panic"
              /\ UNCHANGED <<counter, hist>>
         ELSE /\ deliveries' = [deliveries EXCEPT ![d].st = out]
              /\ counter' = wgDone(counter)
              /\ hist' = [hist EXCEPT !.dones = @ + 1]
              /\ UNCHANGED proc
  /\ UNCHANGED <<options, wire, prog, env, mainpc, looppc, auth, queue, res, err, sigchan,
                 drainNotice, pushes>>

DeliverSome == \E d \in DOMAIN deliveries : \E relay \in RelayStages : Deliver(d, relay)

\* ------------------------------------------------- the mailer on its own

\* One call of mailer.sendMail(mail) (sendMail(&wg, options, mailAuth, mail)
\* in src/main.go) on the started worker, followed to what it puts on the
\* wire.
MailerCall ==
  /\ Running
  /\ mainpc = "listening"
  /\ ~wire.called
  /\ \E mail \in Mails : \E relay \in RelayStages :
       wire' = Session(prog, auth, options, mail, relay)
  /\ UNCHANGED <<options, prog, env, proc, mainpc, looppc, auth, queue, res,
                 err, counter, deliveries, sigchan, drainNotice, pushes, hist>>

\* ---------------------------------------------------------- specification

Next ==
  \/ Push
  \/ Interrupt
  \/ MainStart
  \/ MainReceive
  \/ MainWait
  \/ MainExit
  \/ LoopBRPop
  \/ LoopBRPopError
  \/ LoopPopFailed
  \/ LoopDecodeFailed
  \/ LoopDispatch
  \/ DeliverSome

Spec == Init /\ [][Next]_vars

\* The start-up and the mailer on their own, in every environment and on
\* every task of Mails.
InitStartup ==
  /\ prog \in Progs
  /\ env \in AllEnvironments
  /\ proc = "running"
  /\ mainpc = "init"
  /\ looppc = "idle"
  /\ auth = "nil"
  /\ queue = <<>>
  /\ res = NoResult
  /\ err = FALSE
  /\ counter = 0
  /\ deliveries = <<>>
  /\ sigchan = 0
  /\ drainNotice = FALSE
  /\ pushes = 0
  /\ options = ZeroOptions
  /\ wire = NoWire
  /\ hist = [adds |-> 0, dones |-> 0, popped |-> <<>>, received |-> FALSE,
             atInterrupt |-> {}]

NextStartup ==
  \/ MainStart
  \/ MailerCall

SpecStartup == InitStartup /\ [][NextStartup]_vars

TypeOK ==
  /\ prog \in Progs
  /\ proc \in {"running", "exit:config", "exit:drain", "exit:fatal", "exit:panic", "exit:signal"}
  /\ mainpc \in {"init", "listening", "waiting", "finishing", "returned"}
  /\ looppc \in {"idle", "pop", "got", "stopped"}
  /\ auth \in {"nil", "plain"}
  /\ counter \in 0..(MaxPushes + 1)
  /\ sigchan \in 0..1
  /\ Len(deliveries) <= MaxPushes

\* ------------------------------------------------------- derived notions

Concluded == {d \in DOMAIN deliveries : deliveries[d].st \in {"sent", "failed"}}

\* The popped payloads that json.Unmarshal accepts, in pop order.
DecodedPops == SelectSeq(hist.popped, LAMBDA p : ~UnmarshalFails(p))

\* 1 while the loop holds a decodable payload it has not dispatched yet.
PendingDispatch == IF looppc = "got" /\ ~err /\ ~UnmarshalFails(res) THEN 1 ELSE 0

\* This step is the loop finishing the iteration of an undecodable payload.
DiscardStep == looppc = "got" /\ ~err /\ UnmarshalFails(res) /\ looppc' # "got"

\* This step is the loop finishing the iteration of a failed pop.
PopFailedStep == looppc = "got" /\ err /\ looppc' # "got"

\* This step is BRPop returning.
PopStep == looppc = "pop" /\ looppc' = "got"

\* This step ends delivery d's goroutine, one way or another.
EndsDelivery(d) == d \in InFlight /\ deliveries'[d].st # "inflight"

\* Delivery d runs Mailer.sendMailUnauthenticated on a task without recipients.
ZeroRcptUnauth(d) ==
  prog = "part_001" /\ auth = "nil" /\ Len(deliveries[d].mail.recipients) = 0

\* Everything but delivery d and the WaitGroup counter is left alone.
OthersUntouched(d) ==
  /\ looppc' = looppc
  /\ mainpc' = mainpc
  /\ queue' = queue
  /\ res' = res
  /\ DOMAIN deliveries' = DOMAIN deliveries
  /\ \A e \in DOMAIN deliveries \ {d} : deliveries'[e] = deliveries[e]

\* ----------------------------------------------------------------- claims

\* C1: while the worker runs, the WaitGroup counter is >= 0 and equals the
\* number of deliveries in flight (spawned, not concluded).  src/main.go
\* breaks it: it counts every pop, decodable or not.
C1_CounterIsInFlight ==
  Running => (counter >= 0 /\ counter = Cardinality(InFlight))

\* C2: increments and decrements balance: whenever every dispatched delivery
\* has concluded, wg.Add was called as often as wg.Done.  src/main.go breaks
\* it through the increment it makes for an undecodable payload (C5).
C2_CounterConserved ==
  (Running /\ InFlight = {} /\ PendingDispatch = 0) => hist.adds = hist.dones

\* C3: when the process has ended, by whatever path, no dispatched delivery
\* is still in flight.  Every revision breaks it.
C3_NoInFlightAtExit ==
  ~Running => InFlight = {}

\* The drain path alone, a part of C3: main returning after wg.Wait() leaves
\* no delivery in flight.  Refuted as well: the loop may dispatch between
\* Wait's return and the process's end.
DrainExitDropsNothing ==
  proc = "exit:drain" => InFlight = {}

\* C4: after an interrupt received with N deliveries in flight, the drain
\* notice is logged, and wg.Wait() has not returned (so the process has not
\* left by the shutdown path) unless each of those N deliveries concluded by
\* its own sendMail.
C4_DrainWaitsForInFlight ==
  /\ hist.received => drainNotice
  /\ (mainpc \in {"finishing", "returned"} /\ proc # "exit:config") =>
       (drainNotice /\ hist.atInterrupt \subseteq Concluded)

C4_Witness ==
  /\ proc = "exit:drain"
  /\ Cardinality(hist.atInterrupt) = 2

\* C5: discarding an undecodable payload leaves the counter alone and spawns
\* nothing, and so does the pop that delivered it.  src/main.go breaks it.
C5_DiscardKeepsCounter ==
  [][(DiscardStep \/ PopStep) =>
       (counter' = counter /\ deliveries' = deliveries)]_vars

\* C6: after discarding an undecodable payload the loop is back at its
\* blocking pop.  src/main.go breaks it: it returns from the goroutine.
C6_LoopSurvivesDiscard ==
  [][DiscardStep => (looppc' = "pop" /\ proc' = "running")]_vars

\* C7: after a failed pop the loop ends the process or goes to a new pop; it
\* does not index the absent result (a panic), change the counter or spawn a
\* delivery.  src/main.go breaks it.
C7_PopErrorHandled ==
  [][PopFailedStep =>
       /\ counter' = counter
       /\ deliveries' = deliveries
       /\ proc' # "exit:panic"
       /\ (proc' # "running" \/ looppc' = "pop")]_vars

\* C8: a delivery of a task without recipients concludes without ending the
\* process: the counter goes down by one, loop and other deliveries go on.
\* part_001 breaks it on the unauthenticated path.
C8_ZeroRecipientsHandled ==
  [][\A d \in DOMAIN deliveries :
       (EndsDelivery(d) /\ Len(deliveries[d].mail.recipients) = 0) =>
         /\ deliveries'[d].st \in {"sent", "failed"}
         /\ proc' = "running"
         /\ counter' = counter - 1
         /\ OthersUntouched(d)]_vars

\* C9: a delivery that ends without success ends as a logged failure: the
\* process keeps running, the counter goes down by one, and the loop, main
\* and every other delivery are where they were.  (The one other way for a
\* delivery to end, the index panic of C8, is no transport error.)
C9_TransportErrorSwallowed ==
  [][\A d \in DOMAIN deliveries :
       (/\ EndsDelivery(d)
        /\ deliveries'[d].st # "sent"
        /\ ~(ZeroRcptUnauth(d) /\ deliveries'[d].st = "panic")) =>
         /\ deliveries'[d].st = "failed"
         /\ proc' = "running"
         /\ counter' = counter - 1
         /\ hist'.dones = hist.dones + 1
         /\ OthersUntouched(d)]_vars

C9_Witness ==
  /\ Running
  /\ Len(deliveries) = 2
  /\ deliveries[1].st = "failed"
  /\ deliveries[2].st = "inflight"
  /\ looppc = "pop"
  /\ counter = 1

\* C10: sendMail has been invoked once for each popped payload that decodes,
\* on that payload's task and in pop order (the payload the loop is holding
\* excepted); list entries come from producers only, so nothing is put back.
C10_OneAttemptPerTask ==
  /\ Len(deliveries) + PendingDispatch = Len(DecodedPops)
  /\ \A d \in DOMAIN deliveries : deliveries[d].mail = Unmarshal(DecodedPops[d])
  /\ Len(queue) + Len(hist.popped) = pushes

C10_Witness ==
  /\ Len(hist.popped) = 2
  /\ hist.popped[1] = hist.popped[2]
  /\ Len(deliveries) = 2
  /\ deliveries[1].st = "failed"
  /\ deliveries[2].st = "sent"
  /\ queue = <<>>

\* --------------------------------------------- derived notions, continued

\* Both credentials are configured and non-empty.
CredentialsGiven(e) == e.username = "set" /\ e.password = "set"

\* The four required variables are set.
RequiredSet(e) ==
  e.host = "set" /\ e.port = "set" /\ e.sender = "set" /\ e.redisAddress = "set"

\* recipients joined by ", ", written out position by position.
JoinedByCommaSpace(recipients) ==
  [i \in 1..(2 * Len(recipients) - 1) |->
     IF i % 2 = 1 THEN recipients[(i + 1) \div 2] ELSE ", "]

\* The value of the To: header of a rendered message: what stands between
\* "To: " and the end of that line.
HeaderTo(message) ==
  LET start == CHOOSE i \in 1..Len(message) : message[i] = "To: "
      stop == CHOOSE j \in (start + 1)..Len(message) :
                /\ message[j] = "<CR>"
                /\ \A k \in (start + 1)..(j - 1) : message[k] # "<CR>"
  IN SubSeq(message, start + 1, stop - 1)

\* The session of the followed call got past its RCPT TO commands.
PastRcpt ==
  StageOrd(effectiveRelay(wire.transport, wire.relay)) > StageOrd("rcpt")

\* This step is the loop finishing the iteration of a JSON object that has
\* no recipients member.
MissingRecipientsStep ==
  looppc = "got" /\ ~err /\ res.kind = "object" /\ ~res.hasRcpt /\ looppc' # "got"

\* ------------------------------------------------------ claims, continued

\* C11: the worker starts whenever the required variables are set, and its
\* deliveries use plain-auth submission exactly when both credentials are
\* non-empty, the unauthenticated session otherwise.  src/main.go and
\* part_000 break it: they refuse to start without the credentials and use
\* smtp.PlainAuth whatever their value.
C11_TransportFromConfig ==
  (RequiredSet(env) /\ mainpc # "init") =>
    /\ proc = "running"
    /\ transport(prog, auth) =
         IF CredentialsGiven(env) THEN "plain-auth" ELSE "unauthenticated"
    /\ wire.called => wire.transport = transport(prog, auth)

\* C12: for a task with k >= 1 recipients whose session gets past RCPT TO,
\* the To: header lists all k; the unauthenticated session has issued one
\* RCPT TO, for the first recipient, the authenticated one a RCPT TO for each.
C12_EnvelopeRecipients ==
  (wire.called /\ Len(wire.arg.recipients) >= 1 /\ PastRcpt) =>
    /\ HeaderTo(wire.message) = JoinedByCommaSpace(wire.arg.recipients)
    /\ wire.transport = "unauthenticated" => wire.rcpt = <<wire.arg.recipients[1]>>
    /\ wire.transport = "plain-auth" => wire.rcpt = wire.arg.recipients

C12_Witness ==
  /\ wire.called
  /\ wire.transport = "unauthenticated"
  /\ Len(wire.arg.recipients) = 2
  /\ wire.outcome = "sent"
  /\ wire.rcpt = <<"a@x.com">>

\* C13: a JSON object without a recipients member is discarded like an
\* undecodable payload: no counter change, no delivery.  Every revision
\* breaks it: json.Unmarshal accepts the object and the task is dispatched.
C13_MissingRecipientsDiscarded ==
  [][MissingRecipientsStep =>
       (counter' = counter /\ deliveries' = deliveries)]_vars

\* C14: the list the loop pops is the configured one: REDIS_KEY, or "tasks"
\* when that is not set; it is the list announced at start-up.  Every
\* revision breaks it: BRPop is called on the literal "tasks".
C14_PopsConfiguredList ==
  mainpc = "listening" =>
    /\ options.RedisKey = (IF env.redisKey = "absent" THEN "tasks" ELSE env.redisKey)
    /\ BRPopKey = options.RedisKey

\* C15: with a required variable missing, main returns before the loop, the
\* signal handler or any delivery exists; with all of them set, it does not
\* end with a configuration error, whatever the credentials.  src/main.go
\* and part_000 break the second half.
C15_ConfigErrorAtStartup ==
  mainpc # "init" =>
    /\ ~RequiredSet(env) =>
         /\ proc = "exit:config"
         /\ looppc = "idle"
         /\ sigchan = 0
         /\ deliveries = <<>>
         /\ ~wire.called
    /\ RequiredSet(env) => proc # "exit:config"

\* C16: for a task with at least one recipient the rendered message is the
\* Content-Type line, To: with the recipients joined by ", ", From: with the
\* sender, Subject: with the subject, an empty line and the body; the
\* caller's task and the options are as they were.
C16_RenderedMessage ==
  (wire.called /\ Len(wire.arg.recipients) >= 1) =>
    /\ wire.message =
         <<ContentTypeLine, "<CR>", "<LF>", "To: ">>
         \o JoinedByCommaSpace(wire.arg.recipients)
         \o <<"<CR>", "<LF>", "From: ", options.SenderAddress, "<CR>", "<LF>", "Subject: ">>
         \o wire.arg.subject
         \o <<"<CR>", "<LF>", "<CR>", "<LF>">>
         \o wire.arg.message
    /\ wire.task = wire.arg
    /\ options = validateEnvironment(env)

C16_Witness ==
  /\ wire.called
  /\ wire.arg.recipients = <<"a@x.com", "b@x.com">>
  /\ wire.arg.subject = <<"5", "0", "%">>
  /\ wire.arg.message = <<"1", "0", "%", "d">>

\* C17: when BRPop returns an entry, every decodable entry popped before it
\* has had its wg.Add and its delivery goroutine, and the deliveries stand
\* in pop order; nothing orders their conclusions.
C17_DispatchInPopOrder ==
  [][PopStep =>
       /\ Len(deliveries) = Len(DecodedPops)
       /\ hist.adds >= Len(DecodedPops)
       /\ \A d \in DOMAIN deliveries : deliveries[d].mail = Unmarshal(DecodedPops[d])
       /\ deliveries' = deliveries]_vars

\* The later dispatched delivery has concluded, the earlier one has not.
C17_Witness ==
  /\ Len(deliveries) = 2
  /\ deliveries[1].st = "inflight"
  /\ deliveries[2].st \in {"sent", "failed"}

\* C18: a delivery that stays in flight blocks nothing: the loop's pop and
\* dispatch are enabled whenever the loop itself is ready for them, and every
\* in-flight delivery can conclude.
C18_HungDeliveryBlocksNothing ==
  (Running /\ InFlight # {}) =>
    /\ (looppc = "pop" /\ queue # <<>>) => ENABLED LoopBRPop
    /\ (looppc = "got" /\ ~err /\ ~UnmarshalFails(res)) => ENABLED LoopDispatch
    /\ \A e \in InFlight : ENABLED Deliver(e, "none")

\* With the first delivery hung, a second was dispatched and came to its end.
C18_Witness ==
  /\ Running
  /\ Len(deliveries) = 2
  /\ deliveries[1].st = "inflight"
  /\ deliveries[2].st = "sent"
  /\ looppc = "pop"

\* C19, as far as a finite run shows it: once the interrupt is received,
\* the list is empty, the loop holds nothing and no delivery is in flight,
\* the counter is zero, so wg.Wait() can return.  src/main.go breaks it: the
\* increment made for a discarded payload (C5) is never taken back.
C19_DrainCanFinish ==
  (/\ Running
   /\ mainpc = "waiting"
   /\ looppc \in {"pop", "stopped"}
   /\ queue = <<>>
   /\ InFlight = {}) => counter = 0

\* C20: the bytes written in the DATA phase are the rendered message, on
\* either transport.  part_001 breaks it on the unauthenticated path, where
\* the message is Fprintf's format.
C20_DataIsRenderedMessage ==
  (wire.called /\ wire.wrote) => wire.data = wire.message

====
